---- MODULE Spec2Model ----
(***************************************************************************)
(* Multi-timeframe screener (src/main.py): fetch_market_data validates a   *)
(* candle series and attaches indicator columns, check_conditions applies  *)
(* the timeframe's rule to the last row, filter_by_conditions counts the   *)
(* satisfied timeframes of one symbol, main screens every symbol.          *)
(***************************************************************************)
EXTENDS Integers, Sequences, FiniteSets, TLC

VARIABLES
    fetchIn,                \* arguments and collaborator answers of one fetch_market_data call
    fetchOut,               \* what that call returned, and through which return statement
    checkIn,                \* arguments of one check_conditions call
    checkOut,               \* what that call returned
    timeframes,             \* filter_by_conditions: timeframes the for loop has still to visit
    results,                \* filter_by_conditions: results dict (timeframe -> bool)
    satisfied_timeframes,   \* filter_by_conditions: counter
    visited,                \* timeframes the loop has visited, with the outcome of each visit
    passed,                 \* return value of the last filter_by_conditions call
    pc,                     \* main: position
    symbols,                \* main: df['symbol'] that is still to be screened
    positive_symbols,       \* main: the list comprehension's accumulated result
    screened,               \* symbols whose filter_by_conditions call returned, with its value
    emitted                 \* symbols printed and saved by main

vars == <<fetchIn, fetchOut, checkIn, checkOut, timeframes, results,
          satisfied_timeframes, visited, passed, pc, symbols,
          positive_symbols, screened, emitted>>

(***************************************************************************)
(* Values of a DataFrame cell.  A float is an integer here; NaN and the    *)
(* infinities are kept apart because comparisons treat them differently.   *)
(***************************************************************************)
Num(v) == [kind |-> "num", val |-> v]
NaN == [kind |-> "nan", val |-> 0]
PosInf == [kind |-> "inf", val |-> 1]
NegInf == [kind |-> "inf", val |-> -1]
\* raw cells the exchange may hand over besides numbers
NumStr(v) == [kind |-> "numstr", val |-> v]     \* a string that parses, e.g. "105"
BadStr == [kind |-> "str", val |-> 0]           \* a string that does not parse
NoneCell == [kind |-> "none", val |-> 0]

IsNull(c) == c.kind = "nan"
IsFinite(c) == c.kind = "num"

\* a >= b, the non-strict comparison
Ge(a, b) ==
    IF a.kind = "nan" \/ b.kind = "nan" THEN FALSE
    ELSE IF a.kind = "inf" /\ b.kind = "inf" THEN a.val >= b.val
    ELSE IF a.kind = "inf" THEN a.val > 0
    ELSE IF b.kind = "inf" THEN b.val < 0
    ELSE a.val >= b.val

\* a > b as Python/numpy floats compare: false as soon as a NaN is involved
Gt(a, b) ==
    IF a.kind = "nan" \/ b.kind = "nan" THEN FALSE
    ELSE IF a.kind = "inf" /\ b.kind = "inf" THEN a.val > b.val
    ELSE IF a.kind = "inf" THEN a.val > 0
    ELSE IF b.kind = "inf" THEN b.val < 0
    ELSE a.val > b.val

\* pd.to_numeric(x, errors='coerce')
to_numeric(c) ==
    IF c.kind \in {"num", "numstr"} THEN Num(c.val)
    ELSE IF c.kind = "inf" THEN c
    ELSE NaN

\* a DataFrame is its rows, each row a function column -> cell; None is kept apart
NoneDf == [none |-> TRUE, rows |-> <<>>]
DataFrame(rows) == [none |-> FALSE, rows |-> rows]

TF == {"1d", "4h", "1h", "15m"}
\* a timeframe the exchange serves and the screener has no profile for
Unsupported == {"1w"}
DefaultTimeframes == <<"1d", "4h", "1h", "15m">>
Limit == 100
Extra == 50
QuorumThreshold == 3

max_delay ==
    [tf \in TF |->
        CASE tf = "15m" -> 15 * 60 * 1000
          [] tf = "1h" -> 60 * 60 * 1000
          [] tf = "4h" -> 4 * 60 * 60 * 1000
          [] tf = "1d" -> 24 * 60 * 60 * 1000]

OhlcvCols == <<"open", "high", "low", "close", "volume">>

Range(seq) == {seq[i] : i \in 1..Len(seq)}

(***************************************************************************)
(* pandas_ta: the first row (0-based) at which an indicator column has a   *)
(* value.  sma(n) needs n closes; shift(1) one more; rsi(7) seven changes; *)
(* macd's line needs the 26-period EMA, its signal 9 values of the line,   *)
(* its histogram both.  ta.macd returns the line, the histogram and the    *)
(* signal, in this order; line 50 names the three columns by position.     *)
(***************************************************************************)
MacdOutput == <<"MACD_12_26_9", "MACDh_12_26_9", "MACDs_12_26_9">>
MacdRenamed == <<"MACD", "MACD_signal", "MACD_hist">>

\* the library's output that a column of the frame holds
LibraryColumn(col) ==
    IF \E k \in 1..Len(MacdRenamed) : MacdRenamed[k] = col
        THEN MacdOutput[CHOOSE k \in 1..Len(MacdRenamed) : MacdRenamed[k] = col]
    ELSE col

MacdSlow == 26
MacdSignal == 9
RsiLength == 7

SmaLength(col) ==
    CASE col \in {"MA5", "MA5_prev"} -> 5
      [] col \in {"MA10", "MA10_prev"} -> 10
      [] col \in {"MA20", "MA20_prev"} -> 20
      [] col = "MA50" -> 50

FirstValid(col) ==
    CASE LibraryColumn(col) = "MACD_12_26_9" -> MacdSlow - 1
      [] LibraryColumn(col) \in {"MACDh_12_26_9", "MACDs_12_26_9"} ->
            MacdSlow + MacdSignal - 2
      [] col = "RSI_7" -> RsiLength
      [] col \in {"MA5", "MA10", "MA20", "MA50"} -> SmaLength(col) - 1
      [] col \in {"MA5_prev", "MA10_prev", "MA20_prev"} -> SmaLength(col)

\* the columns lines 49-69 attach for a timeframe
IndicatorCols(tf) ==
    {"MACD", "MACD_signal", "MACD_hist", "RSI_7", "MA5", "MA5_prev"}
    \cup (IF tf \in {"1h", "15m"} THEN {"MA10", "MA10_prev"}
                                   ELSE {"MA20", "MA20_prev"})
    \cup (IF tf = "1d" THEN {"MA50"} ELSE {})

required_columns ==
    [tf \in TF |->
        CASE tf = "1d" -> {"close", "RSI_7", "MACD_hist", "MA5", "MA20", "MA50"}
          [] tf = "4h" -> {"close", "RSI_7", "MACD_hist", "MA5", "MA20"}
          [] tf = "1h" -> {"close", "RSI_7", "MACD_hist", "MA5", "MA10"}
          [] tf = "15m" -> {"close", "RSI_7", "MACD_hist", "MA5", "MA10"}]

\* rows before which some attached column of the timeframe is still NaN
Warmup(tf) ==
    CHOOSE w \in {FirstValid(col) : col \in IndicatorCols(tf)} :
        \A col \in IndicatorCols(tf) : FirstValid(col) <= w

\* lines 49-69: row i (1-based) of the frame, with its indicator columns.
\* ta.vals are the values the library computes where it computes one; ta.holes
\* are the rows past the warm-up where rsi has none (a stretch of equal
\* closes: no gain and no loss, 0 / 0)
WithIndicators(row, i, tf, ta) ==
    [col \in DOMAIN row \cup IndicatorCols(tf) |->
        IF col \in DOMAIN row THEN row[col]
        ELSE IF i - 1 < FirstValid(col) THEN NaN
        ELSE IF col = "RSI_7" /\ i \in ta.holes THEN NaN
        ELSE ta.vals[LibraryColumn(col)]]

\* line 41 on every OHLCV column
Coerced(row) ==
    [col \in DOMAIN row |->
        IF col = "timestamp" THEN row[col] ELSE to_numeric(row[col])]

RowHasNull(row) == \E col \in DOMAIN row : IsNull(row[col])

\* dropna left out: no row is dropped
keepna(rows) == rows

\* df.dropna()
dropna(rows) == SelectSeq(rows, LAMBDA r : ~RowHasNull(r))

\* df.tail(n)
tail(rows, n) ==
    IF Len(rows) <= n THEN rows ELSE SubSeq(rows, Len(rows) - n + 1, Len(rows))

\* the first OHLCV column, in the order of line 40, that holds a null after coercion
FirstNullCol(rows) ==
    LET bad == {k \in 1..Len(OhlcvCols) :
                    \E i \in 1..Len(rows) : IsNull(rows[i][OhlcvCols[k]])}
    IN IF bad = {} THEN 0 ELSE CHOOSE k \in bad : \A j \in bad : k <= j

Ret(df, exit) == [df |-> df, exit |-> exit]

\* line 18: not ohlcv or len(ohlcv) < limit
InsufficientRaw(ohlcv, limit) == Len(ohlcv) = 0 \/ Len(ohlcv) < limit

\* the comparison of line 35 with >= : a candle exactly max_delay old is stale too
StaleAtBoundary(now, last_candle_time, timeframe) ==
    (now - last_candle_time) >= max_delay[timeframe]

\* line 35: (current_time - last_candle_time) > max_delay[timeframe]
Stale(now, last_candle_time, timeframe) ==
    (now - last_candle_time) > max_delay[timeframe]

\* the check of line 89 left out: the rows left by dropna are not counted
ValidNotCounted(rows, limit) == FALSE

\* line 89: len(df) < limit, after dropna
InsufficientValid(rows, limit) == Len(rows) < limit

(***************************************************************************)
(* fetch_market_data(symbol, timeframe, limit).  resp is the exchange's    *)
(* answer to fetch_ohlcv (a list of candles, or an exception), now is      *)
(* exchange.milliseconds(), ta is what pandas_ta does (values, or an       *)
(* exception).  exit names the return statement taken.                     *)
(***************************************************************************)
fetch_market_data(resp, timeframe, limit, now, ta) ==
    IF resp.raises THEN Ret(NoneDf, "exception")
    ELSE IF InsufficientRaw(resp.ohlcv, limit) THEN Ret(NoneDf, "insufficient_raw")
    ELSE IF timeframe \notin DOMAIN max_delay THEN Ret(NoneDf, "exception")
    ELSE IF Stale(now, resp.ohlcv[Len(resp.ohlcv)].timestamp.val, timeframe)
        THEN Ret(NoneDf, "stale")
    ELSE
    LET df == [i \in 1..Len(resp.ohlcv) |-> Coerced(resp.ohlcv[i])]
    IN  IF FirstNullCol(df) # 0 THEN Ret(NoneDf, "invalid")
        ELSE IF ta.raises \/ Len(df) < MacdSlow THEN Ret(NoneDf, "indicator_error")
        ELSE
        LET full == [i \in 1..Len(df) |-> WithIndicators(df[i], i, timeframe, ta)]
            cols == IF Len(full) = 0 THEN {} ELSE DOMAIN full[1]
        IN  IF ~(required_columns[timeframe] \subseteq cols)
                THEN Ret(NoneDf, "missing_indicator")
            ELSE
            LET clean == dropna(full)
            IN  IF InsufficientValid(clean, limit) THEN Ret(NoneDf, "insufficient_valid")
                ELSE Ret(DataFrame(tail(clean, limit)), "ok")

(***************************************************************************)
(* Inputs of fetch_market_data: what the exchange and pandas_ta may answer *)
(***************************************************************************)
NowMs == 100000000
MaxOver == 1            \* candles the exchange may return beyond limit + Extra
MaxUnder == 1           \* raw lengths below limit that are tried, besides 0
MaxLate == 2            \* ages beyond max_delay that are tried, in ms

AllIndicatorCols == UNION {IndicatorCols(tf) : tf \in TF}

Candle(ts, close) ==
    [timestamp |-> Num(ts), open |-> Num(close), high |-> Num(close),
     low |-> Num(close), close |-> Num(close), volume |-> Num(1)]

\* a defect of a series: none, or at candle k a duplicated timestamp, a pair
\* of swapped timestamps, or a raw cell in column col
NoDefect == [kind |-> "none", k |-> 0, col |-> "", cell |-> NaN]
Duplicate(k) == [kind |-> "dup", k |-> k, col |-> "", cell |-> NaN]
Swap(k) == [kind |-> "swap", k |-> k, col |-> "", cell |-> NaN]
Cell(k, col, cell) == [kind |-> "cell", k |-> k, col |-> col, cell |-> cell]

\* timestamps are 1 ms apart and end at last; with Duplicate(k) candle k carries
\* the timestamp of candle k + 1, with Swap(k) candles k and k + 1 swap theirs
TimestampAt(i, n, last, defect) ==
    IF defect.kind \in {"dup", "swap"} /\ i = defect.k THEN last - (n - i) + 1
    ELSE IF defect.kind = "swap" /\ i = defect.k + 1 THEN last - (n - i) - 1
    ELSE last - (n - i)

CandleAt(i, n, last, close, defect) ==
    LET c == Candle(TimestampAt(i, n, last, defect), close)
    IN  IF defect.kind = "cell" /\ i = defect.k
            THEN [c EXCEPT ![defect.col] = defect.cell]
        ELSE c

\* n candles, the last one at time last
Series(n, last, close, defect) ==
    [i \in 1..n |-> CandleAt(i, n, last, close, defect)]

StrictlyAscending(s) ==
    \A i \in 1..(Len(s) - 1) : s[i].timestamp.val < s[i + 1].timestamp.val

Lengths == {0} \cup ((Limit - MaxUnder)..(Limit + Extra + MaxOver))
Ages(tf) == {0} \cup ((max_delay[tf] - 1)..(max_delay[tf] + MaxLate))
RawCells == {BadStr, NoneCell, NaN, NumStr(105)}

BullishVals ==
    [col \in {LibraryColumn(c) : c \in AllIndicatorCols} |->
        CASE col \in Range(MacdOutput) -> Num(1)
          [] col = "RSI_7" -> Num(60)
          [] col = "MA5" -> Num(105)
          [] col = "MA5_prev" -> Num(104)
          [] col = "MA10" -> Num(102)
          [] col = "MA10_prev" -> Num(101)
          [] col = "MA20" -> Num(100)
          [] col = "MA20_prev" -> Num(99)
          [] col = "MA50" -> Num(95)]

\* what the exchange answers to fetch_ohlcv: an exception, or n candles ending
\* at time last with the given close and defect
Raises == [raises |-> TRUE, n |-> 0, last |-> 0, close |-> 0, defect |-> NoDefect]
Answer(n, last, close, defect) ==
    [raises |-> FALSE, n |-> n, last |-> last, close |-> close, defect |-> defect]
fetch_ohlcv(answer) ==
    [raises |-> answer.raises,
     ohlcv |-> IF answer.raises THEN <<>>
               ELSE Series(answer.n, answer.last, answer.close, answer.defect)]

Ta(vals) == [raises |-> FALSE, vals |-> vals, holes |-> {}]
TaRaises == [raises |-> TRUE, vals |-> BullishVals, holes |-> {}]
TaHole(i) == [raises |-> FALSE, vals |-> BullishVals, holes |-> {i}]

\* sound series of every length and age; defective ones, fresh, of every length
Responses(tf) ==
    {Answer(n, NowMs - a, 110, NoDefect) : n \in Lengths, a \in Ages(tf)}
    \cup {Answer(n, NowMs, 110, d) : n \in Lengths \ {0}, d \in {Duplicate(1), Swap(1)}}
    \cup {Answer(n, NowMs, 110, IF dup THEN Duplicate(n - 2) ELSE Swap(n - 2)) :
            n \in Lengths \ {0}, dup \in BOOLEAN}
    \cup {Answer(n, NowMs, 110, Cell(n, col, cell)) :
            n \in Lengths \ {0}, col \in {"open", "close", "volume"}, cell \in RawCells}
    \cup {Raises}

FetchInput(r, tf, ta) == [resp |-> r, timeframe |-> tf, now |-> NowMs, ta |-> ta]

IdleFetchIn == FetchInput(Raises, "1d", Ta(BullishVals))
NotCalled == [called |-> FALSE, ret |-> Ret(NoneDf, "none")]
Returned(ret) == [called |-> TRUE, ret |-> ret]

(***************************************************************************)
(* check_conditions(df, timeframe).  A rule is the chain of comparisons    *)
(* the return statement of the timeframe joins with `and`: evaluated left  *)
(* to right, stopping at the first false one; reading a column the frame   *)
(* lacks raises KeyError.                                                  *)
(***************************************************************************)
Col(c) == [col |-> c, cell |-> NaN]
Const(v) == [col |-> "", cell |-> Num(v)]
Greater(a, b) == [lhs |-> a, rhs |-> b]

Rule(timeframe) ==
    CASE timeframe = "1d" ->
            << Greater(Col("close"), Col("MA5")),
               Greater(Col("close"), Col("MA20")),
               Greater(Col("close"), Col("MA50")),
               Greater(Col("MACD_hist"), Const(0)),
               Greater(Col("RSI_7"), Const(50)),
               Greater(Const(70), Col("RSI_7")),
               Greater(Col("MA5"), Col("MA5_prev")),
               Greater(Col("MA20"), Col("MA20_prev")) >>
      [] timeframe = "4h" ->
            << Greater(Col("close"), Col("MA5")),
               Greater(Col("close"), Col("MA20")),
               Greater(Col("MACD_hist"), Const(0)),
               Greater(Col("RSI_7"), Const(50)),
               Greater(Const(70), Col("RSI_7")),
               Greater(Col("MA5"), Col("MA5_prev")),
               Greater(Col("MA20"), Col("MA20_prev")) >>
      [] timeframe \in {"1h", "15m"} ->
            << Greater(Col("MA5"), Col("MA10")),
               Greater(Col("MACD_hist"), Const(0)),
               Greater(Col("RSI_7"), Const(50)),
               Greater(Const(75), Col("RSI_7")),
               Greater(Col("MA5"), Col("MA5_prev")),
               Greater(Col("MA10"), Col("MA10_prev")) >>

Has(row, operand) == operand.col = "" \/ operand.col \in DOMAIN row
Value(row, operand) == IF operand.col = "" THEN operand.cell ELSE row[operand.col]

\* "true", "false", or "raise" when a column that is read does not exist
RECURSIVE EvalChain(_, _)
EvalChain(chain, row) ==
    IF chain = <<>> THEN "true"
    ELSE LET c == Head(chain)
         IN  IF ~Has(row, c.lhs) \/ ~Has(row, c.rhs) THEN "raise"
             ELSE IF Gt(Value(row, c.lhs), Value(row, c.rhs))
                 THEN EvalChain(Tail(chain), row)
             ELSE "false"

check_conditions(df, timeframe) ==
    IF df.none \/ Len(df.rows) = 0 THEN FALSE
    ELSE LET last == df.rows[Len(df.rows)]
         IN  IF ~({"close", "RSI_7", "MACD_hist"} \subseteq DOMAIN last) THEN FALSE
             ELSE IF timeframe \notin TF THEN FALSE
             ELSE EvalChain(Rule(timeframe), last) = "true"

(***************************************************************************)
(* Inputs of check_conditions: the row of the documented example, with up  *)
(* to MaxEdits of its cells replaced or its columns removed.               *)
(***************************************************************************)
MaxEdits == 2

Missing == [kind |-> "missing", val |-> 0]
EditCells == {Num(v) : v \in {0, 50, 70, 72, 75, 105, 110}} \cup {NaN, PosInf, NegInf, Missing}
EditCols == {"close", "MACD_hist", "RSI_7", "MA5", "MA5_prev", "MA10", "MA10_prev",
             "MA20", "MA20_prev", "MA50"}

BaseRow(tf) == WithIndicators(Candle(NowMs, 110), Limit + Extra, tf, Ta(BullishVals))

\* row with the cells of edits (column -> cell) put in; a Missing cell removes the column
Edited(row, edits) ==
    [c \in DOMAIN row \ {e \in DOMAIN edits : edits[e].kind = "missing"} |->
        IF c \in DOMAIN edits THEN edits[c] ELSE row[c]]

Edits(tf) ==
    UNION {[S -> EditCells] :
            S \in {T \in SUBSET (EditCols \cap DOMAIN BaseRow(tf)) : Cardinality(T) <= MaxEdits}}

\* the frame a call is given: None, an empty frame, or two rows of which the last is edited
Frame(in) ==
    CASE in.frame = "none" -> NoneDf
      [] in.frame = "empty" -> DataFrame(<<>>)
      [] in.frame = "rows" ->
            DataFrame(<<BaseRow(in.timeframe), Edited(BaseRow(in.timeframe), in.edits)>>)

NoEdits == [c \in {} |-> NaN]

CheckInput(f, tf, e) == [frame |-> f, timeframe |-> tf, edits |-> e]

IdleCheckIn == CheckInput("none", "1d", NoEdits)
NotChecked == [called |-> FALSE, ret |-> FALSE]
Checked(b) == [called |-> TRUE, ret |-> b]

(***************************************************************************)
(* filter_by_conditions and main                                           *)
(***************************************************************************)
MaxSymbols == 2         \* symbols get_top_volume_perpetual hands to the run
MaxExtraTf == 1         \* timeframes a caller may append to the default list

MaxAge(tf) == IF tf \in TF THEN max_delay[tf] ELSE 0

\* what the exchange and pandas_ta may answer during one loop iteration
StepInputs(tf) ==
    {[resp |-> r, timeframe |-> tf, now |-> NowMs, ta |-> t] :
        r \in {Raises,
               Answer(Limit - 1, NowMs, 110, NoDefect),
               Answer(Limit + Warmup(tf) - 1, NowMs, 110, NoDefect),
               Answer(Limit + Extra, NowMs - MaxAge(tf) - 1, 110, NoDefect),
               Answer(Limit + Extra, NowMs, 110, Cell(1, "close", BadStr)),
               Answer(Limit + Extra, NowMs - MaxAge(tf), 110, NoDefect),
               Answer(Limit + Extra, NowMs, 100, NoDefect)},
        t \in {TaRaises,
               Ta(BullishVals),
               Ta([BullishVals EXCEPT !["RSI_7"] = Num(72)]),
               Ta([BullishVals EXCEPT !["MACDs_12_26_9"] = Num(0)])}}

\* lines 154-156 for one timeframe: the frame fetched, and the rule's verdict on it
Pipeline(in) ==
    LET df == fetch_market_data(fetch_ohlcv(in.resp), in.timeframe, Limit, in.now, in.ta).df
    IN  [failed |-> df.none,
         satisfied |-> IF df.none THEN FALSE ELSE check_conditions(df, in.timeframe)]

PipelineOutcomes == [tf \in TF \cup Unsupported |-> {Pipeline(in) : in \in StepInputs(tf)}]

Visit(tf, o) == [timeframe |-> tf, failed |-> o.failed, satisfied |-> o.satisfied]

\* lines 155-157 without the None test: a failed timeframe is entered as False
RecordFailure(res, tf, o) ==
    [t \in DOMAIN res \cup {tf} |-> IF t = tf THEN o.satisfied ELSE res[t]]

\* if df is not None: results[timeframe] = is_satisfied (lines 155-157)
Record(res, tf, o) ==
    IF o.failed THEN res
    ELSE [t \in DOMAIN res \cup {tf} |-> IF t = tf THEN o.satisfied ELSE res[t]]

\* lines 158-159 without the is_satisfied test: every evaluated timeframe is counted
CountEvaluated(n, o) == IF ~o.failed THEN n + 1 ELSE n

\* if is_satisfied: satisfied_timeframes += 1 (lines 155-159)
Count(n, o) == IF ~o.failed /\ o.satisfied THEN n + 1 ELSE n

\* unanimity in place of the quorum: every default timeframe has to be satisfied
Unanimity(n) == n >= Len(DefaultTimeframes)

\* line 166: satisfied_timeframes >= 3
Quorum(n) == n >= QuorumThreshold

EmptyDict == [t \in {} |-> FALSE]

\* one iteration of the for loop of filter_by_conditions
FilterStep ==
    /\ pc = "filter"
    /\ timeframes # <<>>
    /\ \E o \in PipelineOutcomes[Head(timeframes)] :
        /\ results' = Record(results, Head(timeframes), o)
        /\ satisfied_timeframes' = Count(satisfied_timeframes, o)
        /\ visited' = Append(visited, Visit(Head(timeframes), o))
    /\ timeframes' = Tail(timeframes)
    /\ UNCHANGED <<fetchIn, fetchOut, checkIn, checkOut, passed, pc, symbols,
                   positive_symbols, screened, emitted>>

\* the loop is over: return satisfied_timeframes >= 3
FilterReturn ==
    /\ pc = "filter"
    /\ timeframes = <<>>
    /\ passed' = Quorum(satisfied_timeframes)
    /\ pc' = "returned"
    /\ UNCHANGED <<fetchIn, fetchOut, checkIn, checkOut, timeframes, results,
                   satisfied_timeframes, visited, symbols, positive_symbols,
                   screened, emitted>>

\* main, line 201: get_top_volume_perpetual returns the symbols, or (None, None)
Start ==
    /\ pc = "start"
    /\ \E n \in 0..MaxSymbols, failed \in BOOLEAN :
        /\ symbols' = IF failed THEN <<>> ELSE [i \in 1..n |-> i]
        /\ pc' = IF failed \/ n = 0 THEN "done" ELSE "screening"
    /\ UNCHANGED <<fetchIn, fetchOut, checkIn, checkOut, timeframes, results,
                   satisfied_timeframes, visited, passed, positive_symbols,
                   screened, emitted>>

\* line 204: the comprehension calls filter_by_conditions(symbol) for the next symbol
CallFilter ==
    /\ pc = "screening"
    /\ symbols # <<>>
    /\ timeframes' = DefaultTimeframes
    /\ results' = EmptyDict
    /\ satisfied_timeframes' = 0
    /\ visited' = <<>>
    /\ pc' = "filter"
    /\ UNCHANGED <<fetchIn, fetchOut, checkIn, checkOut, passed, symbols,
                   positive_symbols, screened, emitted>>

\* line 204: the comprehension keeps the symbol when the call returned True
Collect ==
    /\ pc = "returned"
    /\ positive_symbols' =
        IF passed THEN Append(positive_symbols, Head(symbols)) ELSE positive_symbols
    /\ screened' = Append(screened, [symbol |-> Head(symbols), passed |-> passed])
    /\ symbols' = Tail(symbols)
    /\ pc' = "screening"
    /\ UNCHANGED <<fetchIn, fetchOut, checkIn, checkOut, timeframes, results,
                   satisfied_timeframes, visited, passed, emitted>>

\* an exception leaves filter_by_conditions (nothing in it or in the comprehension
\* catches one, e.g. a print that fails): line 222 catches it, outside the comprehension
Unexpected ==
    /\ pc = "filter"
    /\ pc' = "aborted"
    /\ UNCHANGED <<fetchIn, fetchOut, checkIn, checkOut, timeframes, results,
                   satisfied_timeframes, visited, passed, symbols,
                   positive_symbols, screened, emitted>>

\* lines 207-221: every symbol was screened; the positive ones are printed and saved
Emit ==
    /\ pc = "screening"
    /\ symbols = <<>>
    /\ emitted' = positive_symbols
    /\ pc' = "done"
    /\ UNCHANGED <<fetchIn, fetchOut, checkIn, checkOut, timeframes, results,
                   satisfied_timeframes, visited, passed, symbols,
                   positive_symbols, screened>>

IdleFilter ==
    /\ timeframes = <<>>
    /\ results = EmptyDict
    /\ satisfied_timeframes = 0
    /\ visited = <<>>
    /\ passed = FALSE

IdleMain ==
    /\ symbols = <<>>
    /\ positive_symbols = <<>>
    /\ screened = <<>>
    /\ emitted = <<>>

IdleCalls ==
    /\ fetchIn = IdleFetchIn
    /\ fetchOut = NotCalled
    /\ checkIn = IdleCheckIn
    /\ checkOut = NotChecked

\* the run of main
Init ==
    /\ IdleCalls
    /\ IdleFilter
    /\ IdleMain
    /\ pc = "start"

Next == Start \/ CallFilter \/ FilterStep \/ FilterReturn \/ Collect \/ Unexpected \/ Emit

Spec == Init /\ [][Next]_vars

(***************************************************************************)
(* filter_by_conditions called on its own, with any timeframes list        *)
(***************************************************************************)
RECURSIVE Lists(_, _)
Lists(S, n) ==
    IF n = 0 THEN {<<>>}
    ELSE LET shorter == Lists(S, n - 1)
         IN  shorter \cup {Append(l, x) : l \in shorter, x \in S}

InitFilter ==
    /\ IdleCalls
    /\ IdleMain
    /\ timeframes \in Lists(TF \cup Unsupported, Len(DefaultTimeframes))
                        \cup {DefaultTimeframes \o l : l \in Lists(TF \cup Unsupported, MaxExtraTf)}
    /\ results = EmptyDict
    /\ satisfied_timeframes = 0
    /\ visited = <<>>
    /\ passed = FALSE
    /\ pc = "filter"

NextFilter == FilterStep \/ FilterReturn

SpecFilter == InitFilter /\ [][NextFilter]_vars

(***************************************************************************)
(* fetch_market_data called on its own                                     *)
(***************************************************************************)
FetchCall ==
    /\ ~fetchOut.called
    /\ fetchOut' = Returned(fetch_market_data(fetch_ohlcv(fetchIn.resp), fetchIn.timeframe,
                                              Limit, fetchIn.now, fetchIn.ta))
    /\ UNCHANGED <<fetchIn, checkIn, checkOut, timeframes, results,
                   satisfied_timeframes, visited, passed, pc, symbols,
                   positive_symbols, screened, emitted>>

InitFetch ==
    /\ \E tf \in TF :
        \/ \E r \in Responses(tf) : fetchIn = FetchInput(r, tf, Ta(BullishVals))
        \/ fetchIn = FetchInput(Answer(Limit + Extra, NowMs, 110, NoDefect), tf, TaRaises)
        \/ \E n \in Lengths \ {0}, last \in BOOLEAN :
            fetchIn = FetchInput(Answer(n, NowMs, 110, NoDefect), tf,
                                 TaHole(IF last THEN n ELSE Limit))
    /\ fetchOut = NotCalled
    /\ checkIn = IdleCheckIn
    /\ checkOut = NotChecked
    /\ IdleFilter
    /\ IdleMain
    /\ pc = "fetch"

SpecFetch == InitFetch /\ [][FetchCall]_vars

(***************************************************************************)
(* check_conditions called on its own                                      *)
(***************************************************************************)
CheckCall ==
    /\ ~checkOut.called
    /\ checkOut' = Checked(check_conditions(Frame(checkIn), checkIn.timeframe))
    /\ UNCHANGED <<fetchIn, fetchOut, checkIn, timeframes, results,
                   satisfied_timeframes, visited, passed, pc, symbols,
                   positive_symbols, screened, emitted>>

InitCheck ==
    /\ fetchIn = IdleFetchIn
    /\ fetchOut = NotCalled
    /\ \E tf \in TF :
        \/ \E e \in Edits(tf) : checkIn = CheckInput("rows", tf, e)
        \/ \E f \in {"none", "empty"} : checkIn = CheckInput(f, tf, NoEdits)
    /\ checkOut = NotChecked
    /\ IdleFilter
    /\ IdleMain
    /\ pc = "check"

SpecCheck == InitCheck /\ [][CheckCall]_vars

(***************************************************************************)
(* Properties of the run and of filter_by_conditions                       *)
(***************************************************************************)
VisitedTimeframes == [i \in 1..Len(visited) |-> visited[i].timeframe]
\* the configured timeframes whose verdict was true
TrueVerdicts ==
    {tf \in Range(DefaultTimeframes) :
        \E i \in 1..Len(visited) : visited[i].timeframe = tf /\ visited[i].satisfied}
\* the timeframes mapped to True in results
MappedTrue == {tf \in DOMAIN results : results[tf]}
NoRepeat == \A i, j \in 1..Len(visited) :
                visited[i].timeframe = visited[j].timeframe => i = j

\* C1: when filter_by_conditions returns for a symbol screened over the
\* configured timeframes, passed is true exactly when at least 3 of the
\* configured timeframes have a true verdict.
QuorumLaw ==
    pc = "returned" =>
        /\ VisitedTimeframes = DefaultTimeframes
        /\ passed <=> Cardinality(TrueVerdicts) >= 3

\* three timeframes satisfied, one evaluated and not satisfied: passed
QuorumLawWitness ==
    /\ pc = "returned"
    /\ passed
    /\ Cardinality(TrueVerdicts) = 3
    /\ \E i \in 1..Len(visited) : ~visited[i].failed /\ ~visited[i].satisfied

\* C2 as stated: a timeframe whose pipeline failed is entered in results as False.
FailureRecordedFalse ==
    \A i \in 1..Len(visited) :
        visited[i].failed =>
            /\ visited[i].timeframe \in DOMAIN results
            /\ results[visited[i].timeframe] = FALSE

\* a frame whose last row lacks a column the rule of tf reads
LacksColumn(tf) == DataFrame(<<Edited(BaseRow(tf), [c \in {"MA5"} |-> Missing])>>)

\* C2, amended: a timeframe whose fetch, validation or indicator computation
\* failed gets no entry in results and is not counted; a rule evaluation that
\* raises yields False like an unsatisfied rule; every configured timeframe
\* is visited all the same, each other one is entered with its verdict, and
\* the counter and the quorum see exactly the satisfied ones.
FaultIsolation ==
    /\ \A tf \in TF : ~check_conditions(LacksColumn(tf), tf)
    /\ pc = "returned" =>
        /\ VisitedTimeframes = DefaultTimeframes
        /\ \A i \in 1..Len(visited) :
            IF visited[i].failed
                THEN visited[i].timeframe \notin DOMAIN results
            ELSE /\ visited[i].timeframe \in DOMAIN results
                 /\ results[visited[i].timeframe] = visited[i].satisfied
        /\ satisfied_timeframes = Cardinality(TrueVerdicts)
        /\ passed <=> Cardinality(TrueVerdicts) >= 3

\* the 4h pipeline failed, the other three timeframes are satisfied: passed
FaultIsolationWitness ==
    /\ pc = "returned"
    /\ passed
    /\ \A i \in 1..Len(visited) :
        IF visited[i].timeframe = "4h" THEN visited[i].failed
        ELSE visited[i].satisfied

\* C9: when the run is over, every symbol but at most the one whose screening
\* hit the unexpected error was screened, and every screened symbol that
\* passed is among the emitted results.
SymbolIsolation ==
    pc \in {"done", "aborted"} =>
        /\ Len(symbols) <= 1
        /\ \A i \in 1..Len(screened) :
            screened[i].passed => screened[i].symbol \in Range(emitted)

\* C10 as stated: after any prefix of any timeframes list the counter is the
\* number of distinct timeframes mapped to True.
CounterIsMappedTrue == satisfied_timeframes = Cardinality(MappedTrue)

\* C10, amended: after any prefix of a timeframes list that visited no
\* timeframe twice, the counter is the number of timeframes mapped to True,
\* so such a call passes only with at least 3 distinct satisfied timeframes.
CounterIsMappedTrueNoRepeat ==
    NoRepeat =>
        /\ satisfied_timeframes = Cardinality(MappedTrue)
        /\ pc = "returned" /\ passed => Cardinality(MappedTrue) >= 3

\* a list longer than the default one, without a repeat, that passes
CounterWitness ==
    /\ pc = "returned"
    /\ NoRepeat
    /\ Len(visited) > Len(DefaultTimeframes)
    /\ passed
    /\ \E tf \in DOMAIN results : ~results[tf]

(***************************************************************************)
(* Properties of fetch_market_data                                         *)
(***************************************************************************)
Age == fetchIn.now - fetchIn.resp.last
Out == fetchOut.ret
RawLen == fetchIn.resp.n
\* nothing but the age can make the call fail
OtherwiseValid ==
    /\ ~fetchIn.resp.raises
    /\ ~fetchIn.ta.raises
    /\ fetchIn.ta.holes = {}
    /\ fetchIn.resp.defect.kind = "none"
    /\ RawLen >= Limit + Warmup(fetchIn.timeframe)
Populated(row, tf) ==
    /\ IndicatorCols(tf) \subseteq DOMAIN row
    /\ \A col \in IndicatorCols(tf) : ~IsNull(row[col])

\* the documented staleness bounds, in ms
MaxStaleness(tf) ==
    CASE tf = "15m" -> 900000
      [] tf = "1h" -> 3600000
      [] tf = "4h" -> 14400000
      [] tf = "1d" -> 86400000

\* C3: an otherwise valid series is accepted when its last candle is at most
\* 15 min, 1 h, 4 h, 24 h old for 15m, 1h, 4h, 1d, that age exactly included,
\* and rejected as stale when it is 1 ms older, or more.
FreshnessBoundary ==
    fetchOut.called /\ OtherwiseValid =>
        IF Age <= MaxStaleness(fetchIn.timeframe)
            THEN Out.exit = "ok" /\ ~Out.df.none
        ELSE Out.exit = "stale" /\ Out.df.none

\* a series exactly as old as the bound of its timeframe: accepted
FreshnessWitness ==
    /\ fetchOut.called
    /\ OtherwiseValid
    /\ Age = MaxStaleness(fetchIn.timeframe)
    /\ Out.exit = "ok"
    /\ ~Out.df.none

\* C4: a call returns either exactly Limit rows, each with every indicator
\* column of the timeframe populated, or no frame at all.
WindowInvariant ==
    fetchOut.called =>
        \/ Out.df.none /\ Out.exit # "ok"
        \/ /\ ~Out.df.none
           /\ Out.exit = "ok"
           /\ Len(Out.df.rows) = Limit
           /\ \A i \in 1..Len(Out.df.rows) : Populated(Out.df.rows[i], fetchIn.timeframe)

\* a daily series with just enough candles: the warm-up rows are gone, Limit remain
WindowWitness ==
    /\ fetchOut.called
    /\ fetchIn.timeframe = "1d"
    /\ RawLen = Limit + Warmup("1d")
    /\ Out.exit = "ok"
    /\ Len(Out.df.rows) = Limit

\* C6 as stated: a raw series shorter than Limit + Warmup fails the length
\* check, before the freshness check and the indicator computation.
ShortFailsLengthCheck ==
    fetchOut.called /\ ~fetchIn.resp.raises
        /\ RawLen < Limit + Warmup(fetchIn.timeframe)
    => Out.exit = "insufficient_raw"

\* C6, amended: a raw series shorter than Limit + Warmup never yields a frame.
\* Shorter than Limit it fails the length check; from Limit on it passes that
\* check, goes through the freshness check, the numeric validation and the
\* indicator computation, and unless one of these rejects it, it is rejected
\* after dropna for having fewer than Limit complete rows.
ShortNeverYieldsFrame ==
    fetchOut.called /\ ~fetchIn.resp.raises
        /\ RawLen < Limit + Warmup(fetchIn.timeframe)
    => /\ Out.df.none
       /\ RawLen < Limit => Out.exit = "insufficient_raw"
       /\ RawLen >= Limit =>
            /\ Out.exit \in {"stale", "invalid", "indicator_error", "insufficient_valid"}
            /\ Age <= max_delay[fetchIn.timeframe] /\ ~fetchIn.ta.raises
                    /\ FirstNullCol([i \in 1..RawLen |->
                                        Coerced(fetch_ohlcv(fetchIn.resp).ohlcv[i])]) = 0
                => Out.exit = "insufficient_valid"

\* one candle short of Limit + Warmup, fresh: rejected only after dropna
ShortWitness ==
    /\ fetchOut.called
    /\ ~fetchIn.resp.raises
    /\ RawLen = Limit + Warmup(fetchIn.timeframe) - 1
    /\ Out.exit = "insufficient_valid"

\* C8: a candle sequence with a duplicate timestamp, or not in strictly
\* ascending order, yields no frame.
UnorderedRejected ==
    fetchOut.called /\ ~fetchIn.resp.raises
        /\ ~StrictlyAscending(fetch_ohlcv(fetchIn.resp).ohlcv)
    => Out.df.none

(***************************************************************************)
(* Properties of check_conditions                                          *)
(***************************************************************************)
LastRow == Edited(BaseRow(checkIn.timeframe), checkIn.edits)
\* every column of the frame is there and holds a finite value
FiniteRow ==
    /\ checkIn.frame = "rows"
    /\ DOMAIN LastRow = DOMAIN BaseRow(checkIn.timeframe)
    /\ \A col \in DOMAIN LastRow : IsFinite(LastRow[col])

\* the documented predicate of a timeframe, on the numbers of a finite row
Predicate(tf, r) ==
    CASE tf = "1d" ->
            /\ r["close"].val > r["MA5"].val
            /\ r["close"].val > r["MA20"].val
            /\ r["close"].val > r["MA50"].val
            /\ r["MACD_hist"].val > 0
            /\ 50 < r["RSI_7"].val /\ r["RSI_7"].val < 70
            /\ r["MA5"].val > r["MA5_prev"].val
            /\ r["MA20"].val > r["MA20_prev"].val
      [] tf = "4h" ->
            /\ r["close"].val > r["MA5"].val
            /\ r["close"].val > r["MA20"].val
            /\ r["MACD_hist"].val > 0
            /\ 50 < r["RSI_7"].val /\ r["RSI_7"].val < 70
            /\ r["MA5"].val > r["MA5_prev"].val
            /\ r["MA20"].val > r["MA20_prev"].val
      [] tf \in {"1h", "15m"} ->
            /\ r["MA5"].val > r["MA10"].val
            /\ r["MACD_hist"].val > 0
            /\ 50 < r["RSI_7"].val /\ r["RSI_7"].val < 75
            /\ r["MA5"].val > r["MA5_prev"].val
            /\ r["MA10"].val > r["MA10_prev"].val

\* C5: on a final row of finite values check_conditions returns exactly the
\* documented conjunction of the timeframe, every comparison strict.
PredicateCorrectness ==
    checkOut.called /\ FiniteRow => (checkOut.ret <=> Predicate(checkIn.timeframe, LastRow))

\* the documented daily row with RSI7 = 72: not satisfied
PredicateWitness ==
    /\ checkOut.called
    /\ checkIn.frame = "rows"
    /\ checkIn.timeframe = "1d"
    /\ checkIn.edits = [c \in {"RSI_7"} |-> Num(72)]
    /\ LastRow["close"] = Num(110) /\ LastRow["MA5"] = Num(105)
    /\ LastRow["MA20"] = Num(100) /\ LastRow["MA50"] = Num(95)
    /\ LastRow["MA5_prev"] = Num(104) /\ LastRow["MA20_prev"] = Num(99)
    /\ check_conditions(DataFrame(<<BaseRow("1d")>>), "1d")
    /\ ~checkOut.ret

\* a value the rule of the timeframe reads is missing or not finite
NeededCols(tf) == {"close", "RSI_7", "MACD_hist"} \cup required_columns[tf]
                    \cup (IndicatorCols(tf) \ {"MACD", "MACD_signal"})
BadInput ==
    \/ checkIn.frame \in {"none", "empty"}
    \/ \E col \in NeededCols(checkIn.timeframe) :
        col \notin DOMAIN LastRow \/ ~IsFinite(LastRow[col])

\* C7: for a missing or non-finite input the call fails; it returns no boolean.
ErrorsDistinguishable ==
    checkOut.called /\ BadInput => checkOut.ret \notin BOOLEAN

====
